---- MODULE Spec2Model ----
(***************************************************************************)
(* Model of mcp_web_server.py: the browser session registry               *)
(* (start_browser.sessions), the session tools, the composite tools that  *)
(* open and close a session of their own, and the pure parts of           *)
(* crawl_url, deep_web_search, analyze_website_ui_ux,                      *)
(* fetch_images_from_website, get_page_html, navigate_and_analyze and      *)
(* answer_question_from_web.                                               *)
(*                                                                         *)
(* A session id "session_<int(time.time())>" is represented by the clock  *)
(* second it was built from.  A driver is a number; driverState records   *)
(* whether it is live or has been quit.                                    *)
(***************************************************************************)
EXTENDS Integers, Sequences, FiniteSets, TLC

VARIABLES
    now,          \* int(time.time()): the clock second
    used,         \* a session id has been built in the second now
    sessions,     \* start_browser.sessions: session id -> driver
    driverState,  \* driverState[d]: "live" or "quit", one entry per driver ever started
    stack,        \* call frames of the composite tool invocation in progress
    last,         \* the most recently completed top-level tool invocation
    crawl,        \* crawl_url: inputs and result
    search,       \* deep_web_search: inputs, loop state and result
    ux,           \* analyze_website_ui_ux: flags and result sections
    img,          \* fetch_images_from_website: inputs, loop state and result
    page,         \* get_page_html: the page and the result
    nav,          \* navigate_and_analyze: inputs and result
    answer,       \* answer_question_from_web: the search it made and the result
    rel           \* deep_web_search: the pages read, their relevant content and the summary

vars == <<now, used, sessions, driverState, stack, last, crawl, search, ux, img,
         page, nav, answer, rel>>

----------------------------------------------------------------------------
(* Bounds *)

\* browsers started in one run of the model
MaxDrivers == 3

\* Clock seconds.  A second in which no session id is built cannot be told
\* from its neighbours, so the clock is observed only at the seconds that are
\* used: there are at most as many as browser starts.
\* The session ids a caller passes: those of the seconds so far, and one that
\* was never issued.
SessionIds == 0 .. now + 1

----------------------------------------------------------------------------
(* The session registry *)

NoSessions == [s \in {} |-> 0]

\* f"session_{int(time.time())}"
session_id == now

\* session_id not in start_browser.sessions
SessionMissing(reg, sid) == sid \notin DOMAIN reg

\* start_browser.sessions[session_id] = driver
RegisterSession(reg, sid, d) == [s \in DOMAIN reg \cup {sid} |-> IF s = sid THEN d ELSE reg[s]]

KeepSession(reg, sid) == reg

\* del start_browser.sessions[session_id]
RemoveSession(reg, sid) == [s \in DOMAIN reg \ {sid} |-> reg[s]]

\* webdriver.Chrome(...): the next driver
NewDriver == Len(driverState) + 1

StillRunning(ds, d) == ds

\* driver.quit()
Quit(ds, d) == [ds EXCEPT ![d] = "quit"]

Live(d) == d \in DOMAIN driverState /\ driverState[d] = "live"

\* The record of a completed invocation: how it ended ("returned" a record or
\* "raised" an exception), the status field of the record, whether the session
\* id it was given was missing from the registry, and whether it started a browser.
Done(tool, outcome, status, missing, started) ==
    [tool |-> tool, outcome |-> outcome, status |-> status,
     missing |-> missing, started |-> started]

NoCall == Done("none", "returned", "none", FALSE, FALSE)

SessionTools == {"navigate_to_url", "close_browser", "click_element_and_wait"}
CompositeTools == {"analyze_website_ui_ux", "deep_web_search",
                   "fetch_images_from_website", "fetch_naver_assets"}

StartFailureRaised == "raised"

\* start_browser's "except Exception as e: return {status: error, ...}"
StartFailureOutcome == "returned"

\* "raise ValueError(...)" of a session tool whose session_id is not registered
MissingSessionOutcome == "raised"

\* the tools that check the session id, read the driver and work on it
ReadingTools == {"take_screenshot", "execute_javascript", "get_page_html",
                 "analyze_page_layout", "analyze_component_hierarchy",
                 "analyze_responsive_behavior", "find_clickable_elements"}

SessionDropped(reg, sid) == [s \in DOMAIN reg \ {sid} |-> reg[s]]

\* the registry after a session tool: "driver = start_browser.sessions[session_id]"
\* reads the registry and nothing writes it
SessionReused(reg, sid) == reg

----------------------------------------------------------------------------
(* Session tools: each is one synchronous call *)

\* start_browser(headless); ok: webdriver.Chrome could start the browser
start_browser(ok) ==
    /\ IF ok
       THEN /\ Len(driverState) < MaxDrivers
            /\ driverState' = Append(driverState, "live")
            /\ sessions' = RegisterSession(sessions, session_id, NewDriver)
            /\ last' = Done("start_browser", "returned", "started", FALSE, TRUE)
            /\ used' = TRUE
       ELSE /\ last' = Done("start_browser", StartFailureOutcome, "error", FALSE, FALSE)
            /\ UNCHANGED <<sessions, driverState, used>>
    /\ UNCHANGED <<now, stack, crawl, search, ux, img, page, nav, answer, rel>>

\* navigate_to_url(session_id, url); ok: driver.get and the reads after it succeed
navigate_to_url(sid, ok) ==
    /\ IF SessionMissing(sessions, sid)
       THEN last' = Done("navigate_to_url", MissingSessionOutcome, "none", TRUE, FALSE)
       ELSE IF ok /\ Live(sessions[sid])
       THEN last' = Done("navigate_to_url", "returned", "none", FALSE, FALSE)
       ELSE last' = Done("navigate_to_url", "raised", "none", FALSE, FALSE)
    /\ sessions' = SessionReused(sessions, sid)
    /\ UNCHANGED <<now, used, driverState, stack, crawl, search, ux, img, page, nav, answer, rel>>

\* close_browser(session_id)
close_browser(sid) ==
    /\ IF SessionMissing(sessions, sid)
       THEN /\ last' = Done("close_browser", MissingSessionOutcome, "none", TRUE, FALSE)
            /\ UNCHANGED <<sessions, driverState>>
       ELSE /\ driverState' = Quit(driverState, sessions[sid])
            /\ sessions' = RemoveSession(sessions, sid)
            /\ last' = Done("close_browser", "returned", "closed", FALSE, FALSE)
                        @@ [session_id |-> sid]
    /\ UNCHANGED <<now, used, stack, crawl, search, ux, img, page, nav, answer, rel>>

\* click_element_and_wait(session_id, selector, ...); res: what the driver does
\*   "ok"      the element is clicked and the page read
\*   "caught"  an exception inside the try block, the handler's read succeeds
\*   "broken"  driver.current_url itself fails (before the try, or in a handler)
click_element_and_wait(sid, res) ==
    /\ IF SessionMissing(sessions, sid)
       THEN last' = Done("click_element_and_wait", MissingSessionOutcome, "none", TRUE, FALSE)
       ELSE IF res = "broken" \/ ~Live(sessions[sid])
       THEN last' = Done("click_element_and_wait", "raised", "none", FALSE, FALSE)
       ELSE IF res = "ok"
       THEN last' = Done("click_element_and_wait", "returned", "success", FALSE, FALSE)
       ELSE last' = Done("click_element_and_wait", "returned", "error", FALSE, FALSE)
    /\ sessions' = SessionReused(sessions, sid)
    /\ UNCHANGED <<now, used, driverState, stack, crawl, search, ux, img, page, nav, answer, rel>>

\* take_screenshot, execute_javascript, get_page_html, analyze_page_layout,
\* analyze_component_hierarchy, analyze_responsive_behavior and
\* find_clickable_elements: the session id is checked, the driver read from
\* the registry and used outside any try block; ok: the driver's calls succeed
session_tool(tool, sid, ok) ==
    /\ tool \in ReadingTools
    /\ IF SessionMissing(sessions, sid)
       THEN last' = Done(tool, MissingSessionOutcome, "none", TRUE, FALSE)
       ELSE IF ok /\ Live(sessions[sid])
       THEN last' = Done(tool, "returned", "success", FALSE, FALSE)
       ELSE last' = Done(tool, "raised", "none", FALSE, FALSE)
    /\ sessions' = SessionReused(sessions, sid)
    /\ UNCHANGED <<now, used, driverState, stack, crawl, search, ux, img, page, nav, answer, rel>>

\* navigate_and_analyze(session_id, selector, wait_time, analysis_type): the
\* click (res as for click_element_and_wait), then the analyses, the page
\* information and find_clickable_elements; ok: the driver's calls in them succeed
navigate_and_analyze(sid, res, ok) ==
    /\ IF SessionMissing(sessions, sid)
       THEN last' = Done("navigate_and_analyze", MissingSessionOutcome, "none", TRUE, FALSE)
       ELSE IF res = "broken" \/ ~Live(sessions[sid])
       THEN last' = Done("navigate_and_analyze", "raised", "none", FALSE, FALSE)
       ELSE IF res = "caught"
       THEN last' = Done("navigate_and_analyze", "returned", "error", FALSE, FALSE)
       ELSE IF ok
       THEN last' = Done("navigate_and_analyze", "returned", "success", FALSE, FALSE)
       ELSE last' = Done("navigate_and_analyze", "raised", "none", FALSE, FALSE)
    /\ sessions' = SessionReused(sessions, sid)
    /\ UNCHANGED <<now, used, driverState, stack, crawl, search, ux, img, page, nav, answer, rel>>

\* the clock reaches the next second in which a session id will be built
Tick ==
    /\ used
    /\ now' = now + 1
    /\ used' = FALSE
    /\ UNCHANGED <<sessions, driverState, stack, last, crawl, search, ux, img, page, nav, answer, rel>>

----------------------------------------------------------------------------
(* Composite tools: analyze_website_ui_ux, deep_web_search,               *)
(* fetch_images_from_website and fetch_naver_assets start a session, work *)
(* on it and close it.  Their blocking calls (driver.get, time.sleep) are *)
(* the points where other invocations run.  fetch_naver_assets calls      *)
(* fetch_images_from_website while it holds its own session.              *)

\* fetch_naver_assets calls fetch_images_from_website for logo, media and banners
NaverFetchCalls == 3

Frame(tool, sid, drv) ==
    [tool |-> tool, pc |-> "get", sid |-> sid, drv |-> drv, status |-> "success", sub |-> 0]

Top == stack[Len(stack)]
Below == SubSeq(stack, 1, Len(stack) - 1)
SetTop(f) == Below \o <<f>>

\* time.sleep(n), n >= 2, follows the page load in each composite tool: when
\* the frame goes on, the clock second is later than the one its session id
\* was built from
Slept(f) == now > f.sid

\* analyze_website_ui_ux tests browser_session["status"] == "error" and returns
\* an error record; the other three read browser_session["session_id"] at once
StartErrorOutcome(tool) ==
    IF tool = "analyze_website_ui_ux" THEN "returned" ELSE "raised"

\* analyze_website_ui_ux wraps close_browser in "try: ... except: pass";
\* the other three call it bare in their finally block
CloseErrorOutcome(tool) ==
    IF tool = "analyze_website_ui_ux" THEN "returned" ELSE "raised"

\* The invocation of the top frame ends with record rec.  A top-level
\* invocation is recorded in last; a call made by fetch_naver_assets hands its
\* outcome to the caller's frame: a result lets it go on to the next call,
\* an exception is caught by its "except Exception" and leads to its finally.
Finish(below, rec) ==
    IF below = <<>>
    THEN /\ stack' = <<>>
         /\ last' = rec
    ELSE LET f == below[Len(below)]
             g == IF rec.outcome = "returned"
                  THEN [f EXCEPT !.sub = f.sub + 1]
                  ELSE [f EXCEPT !.status = "error", !.pc = "close"]
         IN /\ stack' = SubSeq(below, 1, Len(below) - 1) \o <<g>>
            /\ last' = last

\* May tool be entered now: as a new invocation, or as the next
\* fetch_images_from_website call of a running fetch_naver_assets
MayEnter(tool) ==
    \/ stack = <<>> /\ tool \in CompositeTools
    \/ /\ stack # <<>>
       /\ Top.tool = "fetch_naver_assets"
       /\ Top.pc = "work"
       /\ Slept(Top)
       /\ Top.sub < NaverFetchCalls
       /\ tool = "fetch_images_from_website"

\* the tool's first lines: start_browser(...), then session_id and driver are read
composite_start(tool, ok) ==
    /\ MayEnter(tool)
    /\ IF ok
       THEN /\ Len(driverState) < MaxDrivers
            /\ driverState' = Append(driverState, "live")
            /\ sessions' = RegisterSession(sessions, session_id, NewDriver)
            /\ stack' = stack \o <<Frame(tool, session_id, NewDriver)>>
            /\ used' = TRUE
            /\ last' = last
       ELSE /\ Finish(stack, Done(tool, StartErrorOutcome(tool), "error", FALSE, FALSE))
            /\ UNCHANGED <<sessions, driverState, used>>
    /\ UNCHANGED <<now, crawl, search, ux, img, page, nav, answer, rel>>

\* driver.get(url) on the driver the tool holds
composite_get(ok) ==
    /\ stack # <<>>
    /\ Top.pc = "get"
    /\ IF ok /\ Live(Top.drv)
       THEN stack' = SetTop([Top EXCEPT !.pc = "work"])
       ELSE stack' = SetTop([Top EXCEPT !.pc = "close", !.status = "error"])
    /\ UNCHANGED <<now, used, sessions, driverState, last, crawl, search, ux, img, page, nav, answer, rel>>

\* The body after the page has loaded.  adv: analyze_website_ui_ux runs the
\* advanced analyses, which look the session up in the registry again;
\* ok: no driver or parsing error occurs.
composite_work(adv, ok) ==
    /\ stack # <<>>
    /\ Top.pc = "work"
    /\ Slept(Top)
    /\ (Top.tool = "fetch_naver_assets" /\ ok) => Top.sub = NaverFetchCalls
    /\ LET f == Top
           lookup == f.tool = "analyze_website_ui_ux" /\ adv
           fine == /\ ok
                   /\ Live(f.drv)
                   /\ lookup => (~SessionMissing(sessions, f.sid) /\ Live(sessions[f.sid]))
       IN stack' = SetTop([f EXCEPT !.pc = "close",
                                       !.status = IF fine THEN "success" ELSE "error"])
    /\ UNCHANGED <<now, used, sessions, driverState, last, crawl, search, ux, img, page, nav, answer, rel>>

\* finally: close_browser(session_id), then return result
composite_close ==
    /\ stack # <<>>
    /\ Top.pc = "close"
    /\ LET f == Top
       IN IF SessionMissing(sessions, f.sid)
          THEN /\ Finish(Below, Done(f.tool, CloseErrorOutcome(f.tool), f.status, TRUE, TRUE))
               /\ UNCHANGED <<sessions, driverState>>
          ELSE /\ driverState' = Quit(driverState, sessions[f.sid])
               /\ sessions' = RemoveSession(sessions, f.sid)
               /\ Finish(Below, Done(f.tool, "returned", f.status, FALSE, TRUE))
    /\ UNCHANGED <<now, used, crawl, search, ux, img, page, nav, answer, rel>>

----------------------------------------------------------------------------
(* The registry and its tools *)

\* a tool that is not being run
NotRunning == [phase |-> "none"]

Init ==
    /\ now = 0
    /\ used = FALSE
    /\ sessions = NoSessions
    /\ driverState = <<>>
    /\ stack = <<>>
    /\ last = NoCall
    /\ page = NotRunning
    /\ nav = NotRunning
    /\ answer = NotRunning
    /\ rel = NotRunning
    /\ crawl = NotRunning
    /\ search = NotRunning
    /\ ux = NotRunning
    /\ img = NotRunning

Next ==
    \/ Tick
    \/ \E ok \in BOOLEAN : start_browser(ok)
    \/ \E sid \in SessionIds, ok \in BOOLEAN : navigate_to_url(sid, ok)
    \/ \E sid \in SessionIds : close_browser(sid)
    \/ \E sid \in SessionIds, res \in {"ok", "caught", "broken"} : click_element_and_wait(sid, res)
    \/ \E tool \in CompositeTools, ok \in BOOLEAN : composite_start(tool, ok)
    \/ \E ok \in BOOLEAN : composite_get(ok)
    \/ \E adv \in BOOLEAN, ok \in BOOLEAN : composite_work(adv, ok)
    \/ composite_close

Spec == Init /\ [][Next]_vars

\* The session tools alone: callers that start sessions, work on them with
\* every session-scoped tool and close them.
NextTools ==
    \/ Tick
    \/ \E ok \in BOOLEAN : start_browser(ok)
    \/ \E sid \in SessionIds, ok \in BOOLEAN : navigate_to_url(sid, ok)
    \/ \E sid \in SessionIds : close_browser(sid)
    \/ \E sid \in SessionIds, res \in {"ok", "caught", "broken"} : click_element_and_wait(sid, res)
    \/ \E tool \in ReadingTools, sid \in SessionIds, ok \in BOOLEAN : session_tool(tool, sid, ok)
    \/ \E sid \in SessionIds, res \in {"ok", "caught", "broken"}, ok \in BOOLEAN :
           navigate_and_analyze(sid, res, ok)

SpecTools == Init /\ [][NextTools]_vars

----------------------------------------------------------------------------
(* deep_web_search: the search page, the loop over the search results and *)
(* the links followed from each result page.  A page is a url; what the   *)
(* browser finds there (a load error, the links on the page) is drawn     *)
(* when the page is visited.                                               *)

NumUrls == 3
MaxResults == 2
MaxPagesArg == 2
MaxDepthArg == 2

Urls == 1 .. NumUrls
Engines == {"google", "bing", "ddg", "yahoo"}

Min(a, b) == IF a < b THEN a ELSE b

\* seq[:n] for n >= 0
Take(seq, n) == SubSeq(seq, 1, Min(n, Len(seq)))

SeqsUpTo(S, n) == UNION {[1 .. k -> S] : k \in 0 .. n}

\* the chain "if google ... elif bing ... elif ddg/duckduckgo" that collects
\* search_results: found is what the engine's selector matches on the page
ExtractResults(engine, found) ==
    IF engine \in {"google", "bing", "ddg", "duckduckgo"} THEN found ELSE <<>>

\* results["search_engine"]: set to the argument, reset to "google" in the else branch
ReportedEngine(engine) ==
    IF engine \in {"google", "bing", "ddg", "duckduckgo"} THEN engine ELSE "google"

\* search_url: the site of the chain "if google ... elif bing ... elif ddg ... else"
SearchSite(engine) ==
    IF engine = "bing" THEN "www.bing.com"
    ELSE IF engine \in {"ddg", "duckduckgo"} THEN "duckduckgo.com"
    ELSE "www.google.com"

\* "if depth > 1 and results['pages_visited'] < max_pages"
FollowsLinks(depth, visited, max_pages) == depth > 1 /\ visited < max_pages

\* potential_links[:2]
LinksPerPage == 2

SearchCall(engine, found, max_pages, depth) ==
    [phase |-> "start", engine |-> engine, found |-> found, max_pages |-> max_pages,
     depth |-> depth, search_engine |-> engine, search_url |-> "none",
     search_results |-> <<>>, idx |-> 1,
     links |-> <<>>, visited_urls |-> {}, pages_visited |-> 0, results |-> <<>>,
     status |-> "success"]

InitSearch ==
    /\ now = 0
    /\ used = FALSE
    /\ sessions = NoSessions
    /\ driverState = <<>>
    /\ stack = <<>>
    /\ last = NoCall
    /\ page = NotRunning
    /\ nav = NotRunning
    /\ answer = NotRunning
    /\ rel = NotRunning
    /\ crawl = NotRunning
    /\ ux = NotRunning
    /\ img = NotRunning
    /\ search \in {SearchCall(e, f, m, d) :
                      e \in Engines, f \in SeqsUpTo(Urls, MaxResults),
                      m \in 0 .. MaxPagesArg, d \in 0 .. MaxDepthArg}

OnlySearch == UNCHANGED <<now, used, sessions, driverState, stack, last, crawl, ux, img, page, nav, answer, rel>>

\* driver.get(search_url) and the extraction of the result links;
\* ok: neither raises
load_search_page(ok) ==
    /\ search.phase = "start"
    /\ IF ok
       THEN search' = [search EXCEPT
                !.phase = "loop",
                !.search_engine = ReportedEngine(search.engine),
                !.search_url = SearchSite(search.engine),
                !.search_results = Take(ExtractResults(search.engine, search.found),
                                        search.max_pages)]
       ELSE search' = [search EXCEPT
                !.phase = "done",
                !.search_engine = ReportedEngine(search.engine),
                !.search_url = SearchSite(search.engine),
                !.status = "error"]
    /\ OnlySearch

\* One pass of "for idx, result in enumerate(search_results)" up to the link loop.
\* load: "fails" driver.get raises; "unread" the page loads and reading it
\* raises; "ok".  page_links: the relevant, proper links found on the page.
visit_result(load, page_links) ==
    /\ search.phase = "loop"
    /\ search.idx <= Len(search.search_results)
    /\ LET url == search.search_results[search.idx]
           skip == [search EXCEPT !.idx = search.idx + 1]
           seen == [search EXCEPT !.visited_urls = @ \cup {url},
                                  !.pages_visited = @ + 1]
           read == [seen EXCEPT !.results = Append(@, [url |-> url, via |-> "result"])]
       IN IF url \in search.visited_urls \/ load = "fails"
          THEN search' = skip
          ELSE IF load = "unread"
          THEN search' = [seen EXCEPT !.idx = search.idx + 1]
          ELSE IF FollowsLinks(search.depth, read.pages_visited, search.max_pages)
          THEN search' = [read EXCEPT !.phase = "links",
                                      !.links = Take(page_links, LinksPerPage)]
          ELSE search' = [read EXCEPT !.idx = search.idx + 1]
    /\ OnlySearch

\* One pass of "for link_idx, link in enumerate(potential_links[:2])"
follow_link(load) ==
    /\ search.phase = "links"
    /\ LET back == [search EXCEPT !.phase = "loop", !.links = <<>>, !.idx = search.idx + 1]
       IN IF search.links = <<>> \/ search.pages_visited >= search.max_pages
          THEN search' = back
          ELSE LET url == Head(search.links)
                   next == [search EXCEPT !.links = Tail(@)]
                   seen == [next EXCEPT !.visited_urls = @ \cup {url},
                                        !.pages_visited = @ + 1]
               IN IF url \in search.visited_urls \/ load = "fails"
                  THEN search' = next
                  ELSE IF load = "unread"
                  THEN search' = seen
                  ELSE search' = [seen EXCEPT !.results =
                                      Append(@, [url |-> url, via |-> "link"])]
    /\ OnlySearch

\* the loop is over: the summary is built and the result returned
search_done ==
    /\ search.phase = "loop"
    /\ search.idx > Len(search.search_results)
    /\ search' = [search EXCEPT !.phase = "done"]
    /\ OnlySearch

Loads == {"fails", "unread", "ok"}

NextSearch ==
    \/ \E ok \in BOOLEAN : load_search_page(ok)
    \/ \E load \in Loads, page_links \in SeqsUpTo(Urls, LinksPerPage) :
           visit_result(load, page_links)
    \/ \E load \in Loads : follow_link(load)
    \/ search_done

SpecSearch == InitSearch /\ [][NextSearch]_vars

----------------------------------------------------------------------------
(* crawl_url: the text returned for a response.  A text is a sequence of  *)
(* characters.                                                             *)

MaxText == 3

Chars == {"a", "b"}
Texts == SeqsUpTo(Chars, MaxText)

\* extract_selector: None, or a selector
Selectors == {<<>>, <<"a">>}

\* len("No elements found matching selector: ")
NoMatchPrefixLen == 37

\* f"No elements found matching selector: {extract_selector}"
NoMatchMessage(selector) == [i \in 1 .. NoMatchPrefixLen |-> "-"] \o selector

Uncut(text, n) == text

\* text[:max_content_length]
Cut(text, n) == Take(text, n)

\* The text crawl_url puts in result["text"] and the content it comes from.
\* html: "html" in content_type.lower(); extracted: "\n".join(str(el) ...) of
\* the elements the selector matches, <<>> when it matches none.
CrawlResult(html, full_text, max_content_length, extract_selector, extracted) ==
    IF html /\ extract_selector # <<>>
    THEN IF extracted # <<>>
         THEN [status |-> "ok", source |-> "elements", content |-> extracted,
               text |-> Cut(extracted, max_content_length),
               truncated |-> Len(extracted) > max_content_length]
         ELSE [status |-> "ok", source |-> "message",
               content |-> NoMatchMessage(extract_selector),
               text |-> NoMatchMessage(extract_selector),
               truncated |-> FALSE]
    ELSE [status |-> "ok", source |-> "page", content |-> full_text,
          text |-> Cut(full_text, max_content_length),
          truncated |-> Len(full_text) > max_content_length]

CrawlCall(html, full_text, max_content_length, extract_selector) ==
    [phase |-> "call", html |-> html, full_text |-> full_text,
     max_content_length |-> max_content_length, extract_selector |-> extract_selector]

InitCrawl ==
    /\ now = 0
    /\ used = FALSE
    /\ sessions = NoSessions
    /\ driverState = <<>>
    /\ stack = <<>>
    /\ last = NoCall
    /\ page = NotRunning
    /\ nav = NotRunning
    /\ answer = NotRunning
    /\ rel = NotRunning
    /\ search = NotRunning
    /\ ux = NotRunning
    /\ img = NotRunning
    /\ crawl \in {CrawlCall(h, t, m, x) :
                     h \in BOOLEAN, t \in Texts, m \in 0 .. MaxText, x \in Selectors}

OnlyCrawl == UNCHANGED <<now, used, sessions, driverState, stack, last, search, ux, img, page, nav, answer, rel>>

\* crawl_url(url, headers, params, max_content_length, extract_selector);
\* ok: requests.get and raise_for_status succeed
crawl_url(ok, extracted) ==
    /\ crawl.phase = "call"
    /\ IF ok
       THEN crawl' = [crawl EXCEPT !.phase = "done"] @@
                     [result |-> CrawlResult(crawl.html, crawl.full_text,
                                             crawl.max_content_length,
                                             crawl.extract_selector, extracted)]
       ELSE crawl' = [crawl EXCEPT !.phase = "done"] @@
                     [result |-> [status |-> "error"]]
    /\ OnlyCrawl

NextCrawl == \E ok \in BOOLEAN, extracted \in Texts : crawl_url(ok, extracted)

SpecCrawl == InitCrawl /\ [][NextCrawl]_vars

----------------------------------------------------------------------------
(* analyze_website_ui_ux: the sections of the result, by flag *)

FlagNames == {"take_screenshot", "analyze_components", "analyze_colors",
              "analyze_typography", "analyze_layout", "analyze_advanced"}

Flags == [FlagNames -> BOOLEAN]

ColorsWithoutScreenshot(flags) == flags["analyze_colors"]

\* "if analyze_colors and take_screenshot": the colours are read from the screenshot
ColorAnalysisRuns(flags) == flags["analyze_colors"] /\ flags["take_screenshot"]

\* the analysis sections the try block adds to result, in the order it adds them
Sections(flags) ==
    (IF flags["take_screenshot"] THEN {"screenshot"} ELSE {})
    \cup (IF flags["analyze_advanced"]
          THEN {"advanced_layout_analysis", "component_hierarchy", "responsive_analysis"}
          ELSE {})
    \cup (IF flags["analyze_layout"] THEN {"layout_analysis"} ELSE {})
    \cup (IF flags["analyze_components"] THEN {"component_analysis"} ELSE {})
    \cup (IF ColorAnalysisRuns(flags) THEN {"color_analysis"} ELSE {})
    \cup (IF flags["analyze_typography"] THEN {"typography_analysis"} ELSE {})

\* the keys every successful result has
BasicKeys == {"url", "timestamp", "status", "title", "meta_tags", "ux_patterns",
              "page_structure"}

InitUx ==
    /\ now = 0
    /\ used = FALSE
    /\ sessions = NoSessions
    /\ driverState = <<>>
    /\ stack = <<>>
    /\ last = NoCall
    /\ page = NotRunning
    /\ nav = NotRunning
    /\ answer = NotRunning
    /\ rel = NotRunning
    /\ search = NotRunning
    /\ crawl = NotRunning
    /\ img = NotRunning
    /\ ux \in {[phase |-> "call", flags |-> f] : f \in Flags}

OnlyUx == UNCHANGED <<now, used, sessions, driverState, stack, last, search, crawl, img, page, nav, answer, rel>>

\* The try block of analyze_website_ui_ux once its browser has started.
\* outcome: "ok"; "no_image" the screenshot cannot be opened, which the colour
\* analysis catches itself; "error" any other exception, which replaces the
\* result by an error record.
analyze_website_ui_ux(outcome) ==
    /\ ux.phase = "call"
    /\ IF outcome = "error"
       THEN ux' = [ux EXCEPT !.phase = "done"] @@
                  [status |-> "error", keys |-> {"status", "message"}, color_error |-> FALSE]
       ELSE ux' = [ux EXCEPT !.phase = "done"] @@
                  [status |-> "success", keys |-> BasicKeys \cup Sections(ux.flags),
                   color_error |-> outcome = "no_image" /\ ColorAnalysisRuns(ux.flags)]
    /\ OnlyUx

NextUx == \E outcome \in {"ok", "no_image", "error"} : analyze_website_ui_ux(outcome)

SpecUx == InitUx /\ [][NextUx]_vars

----------------------------------------------------------------------------
(* fetch_images_from_website: the loop over the images of the page.  An   *)
(* image is known by what its src is (missing, a data URI, or a url) and, *)
(* for a url, by the filename derived from it.  A filename is a base and  *)
(* the "_<n>" suffixes that follow it; every image has the same extension. *)

MaxImages == 3

ImageKinds == {"nosrc", "data", "remote"}

Filename(base, tags) == [base |-> base, tags |-> tags]

NoFilename == Filename("", <<>>)

\* the filename of a remote image before duplicates are handled: the cleaned
\* basename of its url ("a.png", "a_2.png", "data_image_0.png")
UrlFilenames == {Filename("a", <<>>), Filename("a", <<2>>), Filename("data_image", <<0>>)}

\* the <img> elements a page can hold
Images ==
    {[kind |-> k, name |-> NoFilename] : k \in {"nosrc", "data"}}
    \cup {[kind |-> "remote", name |-> n] : n \in UrlFilenames}

\* f"data_image_{i}.{image_format}", i counted from 0
DataFilename(i) == Filename("data_image", <<i>>)

\* f"{name}_{filename_counts[filename]}{ext}"
Renamed(filename, count) == Filename(filename.base, Append(filename.tags, count))

\* "if filename in filename_counts: filename_counts[filename] += 1 ...
\*  else: filename_counts[filename] = 1"
CountFilename(counts, filename) ==
    [f \in DOMAIN counts \cup {filename} |->
        IF f = filename
        THEN (IF filename \in DOMAIN counts THEN counts[filename] + 1 ELSE 1)
        ELSE counts[f]]

\* the name the image is saved under
UniqueFilename(counts, filename) ==
    IF filename \in DOMAIN counts
    THEN Renamed(filename, counts[filename] + 1)
    ELSE filename

NoCounts == [f \in {} |-> 0]

EveryImage(images, max_images) == images

\* all_images = all_images[:max_images]
LimitImages(images, max_images) == Take(images, max_images)

FetchCall(page_images, max_images) ==
    [phase |-> "call", page_images |-> page_images, max_images |-> max_images,
     all_images |-> <<>>, i |-> 1, filename_counts |-> NoCounts,
     saved_images |-> <<>>, failed_images |-> <<>>,
     status |-> "success", total_found |-> 0, total_saved |-> 0, total_failed |-> 0]

InitImg ==
    /\ now = 0
    /\ used = FALSE
    /\ sessions = NoSessions
    /\ driverState = <<>>
    /\ stack = <<>>
    /\ last = NoCall
    /\ page = NotRunning
    /\ nav = NotRunning
    /\ answer = NotRunning
    /\ rel = NotRunning
    /\ search = NotRunning
    /\ crawl = NotRunning
    /\ ux = NotRunning
    /\ img \in {FetchCall(f, m) : f \in SeqsUpTo(Images, MaxImages), m \in 0 .. MaxImages}

OnlyImg == UNCHANGED <<now, used, sessions, driverState, stack, last, search, crawl, ux, page, nav, answer, rel>>

\* driver.get(url), the page source is parsed and the images are selected
\* and limited; ok: none of this raises
load_image_page(ok) ==
    /\ img.phase = "call"
    /\ IF ok
       THEN img' = [img EXCEPT !.phase = "loop",
                               !.all_images = LimitImages(img.page_images, img.max_images)]
       ELSE img' = [img EXCEPT !.phase = "done", !.status = "error"]
    /\ OnlyImg

\* One pass of "for i, img in enumerate(all_images)".  res is what happens to
\* an image that has a src: "saved"; "rejected" a data URI that does not match
\* the pattern, or an HTTP status other than 200; "error" an exception before
\* the filename is chosen; "unwritten" an exception when the file is written.
\* Every exception is caught by the pass.
process_image(res) ==
    /\ img.phase = "loop"
    /\ img.i <= Len(img.all_images)
    /\ LET image == img.all_images[img.i]
           kind == image.kind
           fail(reason) == [img EXCEPT !.i = @ + 1,
                               !.failed_images = Append(@, [index |-> img.i, reason |-> reason])]
           save(type, filename) ==
               [img EXCEPT !.i = @ + 1,
                   !.saved_images = Append(@, [index |-> img.i, type |-> type,
                                               saved_path |-> filename])]
           counted(r) == [r EXCEPT !.filename_counts = CountFilename(@, image.name)]
       IN IF kind = "nosrc"
          THEN img' = fail("No source attribute")
          ELSE IF res = "error"
          THEN img' = fail("exception")
          ELSE IF res = "rejected"
          THEN img' = fail(IF kind = "data" THEN "Invalid data URI format"
                           ELSE "HTTP status code")
          ELSE IF kind = "data"
          THEN img' = IF res = "unwritten" THEN fail("exception")
                      ELSE save("base64", DataFilename(img.i - 1))
          ELSE img' = IF res = "unwritten" THEN counted(fail("exception"))
                      ELSE counted(save("remote",
                                        UniqueFilename(img.filename_counts, image.name)))
    /\ OnlyImg

\* the summary after the loop
summarize_images ==
    /\ img.phase = "loop"
    /\ img.i > Len(img.all_images)
    /\ img' = [img EXCEPT !.phase = "done",
                          !.total_found = Len(img.all_images),
                          !.total_saved = Len(img.saved_images),
                          !.total_failed = Len(img.failed_images)]
    /\ OnlyImg

NextImg ==
    \/ \E ok \in BOOLEAN : load_image_page(ok)
    \/ \E res \in {"saved", "rejected", "error", "unwritten"} : process_image(res)
    \/ summarize_images

SpecImg == InitImg /\ [][NextImg]_vars

----------------------------------------------------------------------------
(* get_page_html: the html field of the result.  Only the length of the   *)
(* page source matters: a text is the first chars characters of the page  *)
(* source, followed or not by the marker "... [truncated]".                *)

\* max_length = 10000  # 10KB
max_length == 10000

\* len("... [truncated]")
TruncationMarkerLen == 15

\* how far beyond max_length the page sources go
MaxOver == 3

PageLengths == 0 .. max_length + MaxOver

TextLen(text) == text.chars + (IF text.marker THEN TruncationMarkerLen ELSE 0)

WholeMarked(n) == [chars |-> n, marker |-> TRUE]

\* page_source[:max_length] + "... [truncated]"
Truncated(n) == [chars |-> Min(n, max_length), marker |-> TRUE]

\* the result of get_page_html for a page source of n characters
PageResult(n, save_to_file) ==
    [status |-> "returned",
     content_length |-> n,
     html |-> IF n > max_length THEN Truncated(n) ELSE [chars |-> n, marker |-> FALSE],
     keys |-> {"url", "title", "content_length", "html"}
              \cup (IF save_to_file THEN {"saved_to_file"} ELSE {})
              \cup (IF n > max_length THEN {"truncated"} ELSE {})]

InitPage ==
    /\ now = 0
    /\ used = FALSE
    /\ sessions = NoSessions
    /\ driverState = <<>>
    /\ stack = <<>>
    /\ last = NoCall
    /\ crawl = NotRunning
    /\ search = NotRunning
    /\ ux = NotRunning
    /\ img = NotRunning
    /\ nav = NotRunning
    /\ answer = NotRunning
    /\ rel = NotRunning
    /\ page \in {[phase |-> "call", length |-> n, save_to_file |-> f] :
                    n \in PageLengths, f \in BOOLEAN}

OnlyPage == UNCHANGED <<now, used, sessions, driverState, stack, last, crawl, search, ux,
                        img, nav, answer, rel>>

\* get_page_html(session_id, save_to_file) on a registered session;
\* ok: the driver's reads and the file write succeed
get_page_html(ok) ==
    /\ page.phase = "call"
    /\ IF ok
       THEN page' = [page EXCEPT !.phase = "done"] @@
                    [result |-> PageResult(page.length, page.save_to_file)]
       ELSE page' = [page EXCEPT !.phase = "done"] @@ [result |-> [status |-> "raised"]]
    /\ OnlyPage

NextPage == \E ok \in BOOLEAN : get_page_html(ok)

SpecPage == InitPage /\ [][NextPage]_vars

----------------------------------------------------------------------------
(* navigate_and_analyze: the click, then the analyses chosen by           *)
(* analysis_type, each a call that may raise.                              *)

AnalysisTypes == {"basic", "layout", "components", "full", "other"}

EveryAnalysis(analysis_type) ==
    <<"layout_analysis", "component_analysis", "responsive_analysis",
      "page_info", "clickable_elements">>

\* the entries navigate_and_analyze adds to analysis_result, in the order of
\* its "if analysis_type == ..." statements
Plan(analysis_type) ==
    (IF analysis_type = "layout" \/ analysis_type = "full"
     THEN <<"layout_analysis">> ELSE <<>>)
    \o (IF analysis_type = "components" \/ analysis_type = "full"
        THEN <<"component_analysis">> ELSE <<>>)
    \o (IF analysis_type = "full" THEN <<"responsive_analysis">> ELSE <<>>)
    \o <<"page_info", "clickable_elements">>

\* what click_element_and_wait returns or does
ClickOutcomes == {"ok", "caught", "broken"}

\* result["navigation_type"] of a successful click
NavigationTypes == {"url_change", "in_page_action"}

Range(seq) == {seq[i] : i \in DOMAIN seq}

InitNav ==
    /\ now = 0
    /\ used = FALSE
    /\ sessions = NoSessions
    /\ driverState = <<>>
    /\ stack = <<>>
    /\ last = NoCall
    /\ crawl = NotRunning
    /\ search = NotRunning
    /\ ux = NotRunning
    /\ img = NotRunning
    /\ page = NotRunning
    /\ answer = NotRunning
    /\ rel = NotRunning
    /\ nav \in {[phase |-> "call", analysis_type |-> t, click |-> "none",
                 navigation_type |-> "none", warning |-> FALSE, ran |-> <<>>,
                 result |-> [status |-> "none"]] : t \in AnalysisTypes}

OnlyNav == UNCHANGED <<now, used, sessions, driverState, stack, last, crawl, search, ux,
                       img, page, answer, rel>>

\* click_result = click_element_and_wait(session_id, selector, wait_time) and
\* the test of click_result["status"]
click_step(res, navigation_type, warning) ==
    /\ nav.phase = "call"
    /\ IF res = "broken"
       THEN nav' = [nav EXCEPT !.phase = "done", !.click = res,
                               !.result = [status |-> "raised"]]
       ELSE IF res = "caught"
       THEN nav' = [nav EXCEPT !.phase = "done", !.click = res,
                               !.result = [status |-> "error", navigation_failed |-> TRUE,
                                           keys |-> {"status", "message", "navigation_failed"}]]
       ELSE nav' = [nav EXCEPT !.phase = "analyze", !.click = res,
                               !.navigation_type = navigation_type,
                               !.warning = warning]
    /\ OnlyNav

\* the next entry of analysis_result; ok: the call that computes it returns
analysis_step(ok) ==
    /\ nav.phase = "analyze"
    /\ Len(nav.ran) < Len(Plan(nav.analysis_type))
    /\ IF ok
       THEN nav' = [nav EXCEPT !.ran = Append(@, Plan(nav.analysis_type)[Len(nav.ran) + 1])]
       ELSE nav' = [nav EXCEPT !.phase = "done", !.result = [status |-> "raised"]]
    /\ OnlyNav

\* "result = {status: success, navigation: ..., analysis: analysis_result}"
compile_result ==
    /\ nav.phase = "analyze"
    /\ Len(nav.ran) = Len(Plan(nav.analysis_type))
    /\ nav' = [nav EXCEPT !.phase = "done",
                          !.result = [status |-> "success",
                                      keys |-> {"status", "navigation", "analysis"},
                                      analysis |-> Range(nav.ran)]]
    /\ OnlyNav

NextNav ==
    \/ \E res \in ClickOutcomes, t \in NavigationTypes, w \in BOOLEAN : click_step(res, t, w)
    \/ \E ok \in BOOLEAN : analysis_step(ok)
    \/ compile_result

SpecNav == InitNav /\ [][NextNav]_vars

----------------------------------------------------------------------------
(* answer_question_from_web: the call of deep_web_search, the scoring of  *)
(* its top_relevant_content and the choice of the answer sources.         *)
(* Scores are counted in halves, so that 0.5 is a whole number.           *)

MaxContents == 4
MaxRelevance == 2

\* an entry of top_relevant_content, with what its text holds: an answer
\* pattern for the question type, one question term longer than 3
\* characters, a number
Contents ==
    [relevance_score : 1 .. MaxRelevance, answer_indicators : BOOLEAN,
     term_match : BOOLEAN, number : BOOLEAN]

\* is the sequence of numbers in non-increasing order
NonIncreasing(keys) ==
    \A i \in 1 .. Len(keys) - 1 : keys[i] >= keys[i + 1]

\* the relevance_score of each entry
Relevances(contents) == [i \in 1 .. Len(contents) |-> contents[i].relevance_score]

\* "score = relevance; if answer_indicators: score += 3;
\*  score += question_term_matches * 0.5; ... score += 2", in halves
Score(c, numeric) ==
    2 * c.relevance_score
    + (IF c.answer_indicators THEN 6 ELSE 0)
    + (IF c.term_match THEN 1 ELSE 0)
    + (IF numeric /\ c.number THEN 4 ELSE 0)

Candidate(c, numeric) == [content |-> c, score |-> Score(c, numeric)]

\* the score of each candidate
Scores(cands) == [i \in 1 .. Len(cands) |-> cands[i].score]

\* list.sort(key=..., reverse=True) for the keys given with the list: a stable
\* sort into non-increasing order.  An element comes after those with a larger
\* key and those with the same key that were before it.
SortDesc(seq, keys) ==
    LET n == Len(seq)
        rank(i) == 1 + Cardinality({j \in 1 .. n :
                           keys[j] > keys[i] \/ (keys[j] = keys[i] /\ j < i)})
    IN [r \in 1 .. n |-> seq[CHOOSE i \in 1 .. n : rank(i) = r]]

\* answer_candidates.sort(key=lambda x: x["score"], reverse=True)
SortCandidates(cands) ==
    SortDesc(cands, Scores(cands))

\* answer_candidates[:3]
TopCandidates == 3

\* what deep_web_search hands back.  started: its browser could start; when
\* it could not, the call ends as StartErrorOutcome says.  A returned record
\* has status, the number of page results, pages_visited,
\* total_search_results and, when there are page results,
\* top_relevant_content in non-increasing order of relevance_score.
SearchOutcomes ==
    {[started |-> FALSE]}
    \cup {[started |-> TRUE, status |-> "error", results |-> n, pages_visited |-> n,
           total_search_results |-> t, top |-> <<>>] :
             n \in 0 .. 1, t \in 0 .. 1}
    \cup {[started |-> TRUE, status |-> "success", results |-> 0, pages_visited |-> v,
           total_search_results |-> t, top |-> <<>>] :
             v \in 0 .. 1, t \in 0 .. 1}
    \cup {[started |-> TRUE, status |-> "success", results |-> 1, pages_visited |-> 1,
           total_search_results |-> 1, top |-> top] :
             top \in {s \in SeqsUpTo(Contents, MaxContents) : NonIncreasing(Relevances(s))}}

InitAnswer ==
    /\ now = 0
    /\ used = FALSE
    /\ sessions = NoSessions
    /\ driverState = <<>>
    /\ stack = <<>>
    /\ last = NoCall
    /\ crawl = NotRunning
    /\ search = NotRunning
    /\ ux = NotRunning
    /\ img = NotRunning
    /\ page = NotRunning
    /\ nav = NotRunning
    /\ rel = NotRunning
    /\ answer \in {[phase |-> "call", numeric |-> q, search_results |-> s] :
                      q \in BOOLEAN, s \in SearchOutcomes}

OnlyAnswer == UNCHANGED <<now, used, sessions, driverState, stack, last, crawl, search, ux,
                          img, page, nav, rel>>

\* answer_question_from_web(question, max_pages, search_depth)
answer_question_from_web ==
    /\ answer.phase = "call"
    /\ LET s == answer.search_results
           done(result) == [answer EXCEPT !.phase = "done"] @@ [result |-> result]
       IN IF ~s.started
          THEN answer' = done([status |-> StartErrorOutcome("deep_web_search")])
          ELSE IF s.status # "success" \/ s.results = 0
          THEN answer' = done([status |-> "error",
                               message |-> "Failed to find relevant information"])
          ELSE LET cands == [i \in 1 .. Len(s.top) |-> Candidate(s.top[i], answer.numeric)]
               IN answer' = done([status |-> "success",
                                  candidates |-> cands,
                                  answer_sources |-> Take(SortCandidates(cands), TopCandidates),
                                  pages_visited |-> s.pages_visited,
                                  total_search_results |-> s.total_search_results])
    /\ OnlyAnswer

NextAnswer == answer_question_from_web

SpecAnswer == InitAnswer /\ [][NextAnswer]_vars

----------------------------------------------------------------------------
(* deep_web_search: the relevant content of the pages it reads and the    *)
(* summary.  A paragraph is known by the query terms of the vocabulary    *)
(* that occur in it and by its length.  The relevant content is computed  *)
(* at two places: for a search result page and for a page linked from it. *)

MaxParagraphs == 4

\* "if len(paragraph) < 20: continue"
MinParagraphLen == 20

\* relevant_paragraphs[:3]
TopParagraphs == 3

\* all_relevant_content[:5]
TopContents == 5

Paragraphs ==
    {[terms |-> {}, len |-> MinParagraphLen],
     [terms |-> {"t1"}, len |-> MinParagraphLen],
     [terms |-> {"t1", "t2"}, len |-> MinParagraphLen],
     [terms |-> {"t1", "t2"}, len |-> MinParagraphLen - 1]}

\* query.split()
QueryTerms == {<<>>, <<"t1">>, <<"t1", "t2">>, <<"t2", "t2">>}

\* sum(1 for term in query_terms if term.lower() in paragraph_lower)
RelevanceScore(paragraph, query_terms) ==
    Cardinality({i \in DOMAIN query_terms : query_terms[i] \in paragraph.terms})

AnyParagraph(paragraph, query_terms) == TRUE

\* a paragraph that is not skipped as too short and has "relevance_score > 0"
IsRelevant(paragraph, query_terms) ==
    /\ paragraph.len >= MinParagraphLen
    /\ RelevanceScore(paragraph, query_terms) > 0

\* sort(key=lambda x: x["relevance_score"], reverse=True)
SortByRelevance(contents) ==
    SortDesc(contents, Relevances(contents))

\* extract_relevant_text(html_content, query_terms), for the paragraphs of the page
extract_relevant_text(paragraphs, query_terms) ==
    LET keep(p) == IsRelevant(p, query_terms)
        kept == SelectSeq(paragraphs, keep)
        relevant_paragraphs ==
            [i \in 1 .. Len(kept) |->
                [text |-> kept[i],
                 relevance_score |-> RelevanceScore(kept[i], query_terms)]]
    IN Take(SortByRelevance(relevant_paragraphs), TopParagraphs)

\* page_result / sub_page_result
PageRead(url, extract_relevant_content, paragraphs, query_terms) ==
    [url |-> url,
     relevant_content |-> IF extract_relevant_content
                          THEN extract_relevant_text(paragraphs, query_terms)
                          ELSE <<>>]

\* all_relevant_content: the relevant content of every page, with its source
RECURSIVE AllRelevantContent(_)
AllRelevantContent(results) ==
    IF results = <<>> THEN <<>>
    ELSE LET p == Head(results)
         IN [i \in 1 .. Len(p.relevant_content) |->
                [text |-> p.relevant_content[i].text,
                 relevance_score |-> p.relevant_content[i].relevance_score,
                 source |-> p.url]]
            \o AllRelevantContent(Tail(results))

InitRel ==
    /\ now = 0
    /\ used = FALSE
    /\ sessions = NoSessions
    /\ driverState = <<>>
    /\ stack = <<>>
    /\ last = NoCall
    /\ crawl = NotRunning
    /\ search = NotRunning
    /\ ux = NotRunning
    /\ img = NotRunning
    /\ page = NotRunning
    /\ nav = NotRunning
    /\ answer = NotRunning
    /\ rel \in {[phase |-> "result", query_terms |-> q, extract_relevant_content |-> e,
                 results |-> <<>>, summary |-> FALSE, top_relevant_content |-> <<>>] :
                   q \in QueryTerms, e \in BOOLEAN}

OnlyRel == UNCHANGED <<now, used, sessions, driverState, stack, last, crawl, search, ux,
                       img, page, nav, answer>>

\* a search result page is visited; ok: it loads and is read
read_result_page(ok, paragraphs) ==
    /\ rel.phase = "result"
    /\ IF ok
       THEN rel' = [rel EXCEPT !.phase = "link",
                        !.results = Append(@, PageRead("result", rel.extract_relevant_content,
                                                       paragraphs, rel.query_terms))]
       ELSE rel' = [rel EXCEPT !.phase = "summary"]
    /\ OnlyRel

\* a link of the result page is followed, or none is; ok: the page loads and is read
read_linked_page(ok, paragraphs) ==
    /\ rel.phase = "link"
    /\ IF ok
       THEN rel' = [rel EXCEPT !.phase = "summary",
                        !.results = Append(@, PageRead("link", rel.extract_relevant_content,
                                                       paragraphs, rel.query_terms))]
       ELSE rel' = [rel EXCEPT !.phase = "summary"]
    /\ OnlyRel

\* "if extract_relevant_content and results['results']: ..."
summarize_content ==
    /\ rel.phase = "summary"
    /\ IF rel.extract_relevant_content /\ rel.results # <<>>
       THEN rel' = [rel EXCEPT !.phase = "done", !.summary = TRUE,
                        !.top_relevant_content =
                            Take(SortByRelevance(AllRelevantContent(rel.results)), TopContents)]
       ELSE rel' = [rel EXCEPT !.phase = "done"]
    /\ OnlyRel

NextRel ==
    \/ \E ok \in BOOLEAN, ps \in SeqsUpTo(Paragraphs, MaxParagraphs) : read_result_page(ok, ps)
    \/ \E ok \in BOOLEAN, ps \in SeqsUpTo(Paragraphs, MaxParagraphs) : read_linked_page(ok, ps)
    \/ summarize_content

SpecRel == InitRel /\ [][NextRel]_vars

----------------------------------------------------------------------------
(* Claims about the registry and its tools *)

\* C1 (as stated): every failure during a tool invocation is returned to the
\* caller as an error record; no invocation ends by raising an exception.
C1_NoInvocationRaises == last.outcome # "raised"

\* C1 (amended): a browser that cannot start is caught by start_browser and
\* returned as a status 'error' record, and analyze_website_ui_ux always returns
\* a record; a session tool given a session_id that is not in the registry
\* raises to its caller instead of returning an error record.
C1_FailuresCaughtWhereHandled ==
    /\ last.tool = "start_browser" =>
           /\ last.outcome = "returned"
           /\ ~last.started => last.status = "error"
    /\ last.tool = "analyze_website_ui_ux" => last.outcome = "returned"
    /\ (last.tool \in SessionTools /\ last.missing) => last.outcome = "raised"

\* the browser could not start and start_browser has returned its error record
C1_Witness == last.tool = "start_browser" /\ last.status = "error"

\* C2: a successful start_browser call returns a session id that was not in
\* the registry before the call and leaves every session that was registered
\* mapped to the same driver.
C2_StartAddsNewSession ==
    [][start_browser(TRUE) =>
          /\ session_id \notin DOMAIN sessions
          /\ \A s \in DOMAIN sessions : s \in DOMAIN sessions' /\ sessions'[s] = sessions[s]]_vars

\* C3: every session id in the registry maps to a live driver: one that has
\* been started and has not been quit.
C3_RegisteredDriversLive == \A s \in DOMAIN sessions : Live(sessions[s])

\* a session is registered after another session has been closed
C3_Witness ==
    /\ DOMAIN sessions # {}
    /\ \E d \in DOMAIN driverState : driverState[d] = "quit"

\* C4: when a composite tool that started its browser ends, the session it
\* started is absent from the registry and that session's driver has been quit.
C4_CompositeClosesItsSession ==
    [][(stack # <<>> /\ Top.pc = "close" /\ composite_close) =>
          /\ Top.sid \notin DOMAIN sessions'
          /\ driverState'[Top.drv] = "quit"]_vars

\* C5: when start_browser reports status 'error', a composite tool returns a
\* status 'error' record, navigates nowhere and leaves the registry as it was.
C5_StartErrorReturned ==
    [][\A tool \in CompositeTools :
          (stack = <<>> /\ composite_start(tool, FALSE)) =>
              /\ last'.tool = tool
              /\ last'.outcome = "returned"
              /\ last'.status = "error"
              /\ stack' = <<>>
              /\ sessions' = sessions]_vars

----------------------------------------------------------------------------
(* Claims about deep_web_search *)

\* C6: deep_web_search explores at most max_pages pages: pages_visited never
\* exceeds max_pages, for any max_pages >= 0 and any depth.
C6_PagesVisitedBounded ==
    search.phase # "none" => search.pages_visited <= search.max_pages

\* C7: depth selects how far the search navigates: with depth = 0 no result
\* page is visited (pages_visited = 0, results empty), with depth = 1 no link
\* found on a result page is followed.
C7_DepthSelectsNavigation ==
    search.phase = "done" =>
        /\ search.depth = 0 => (search.pages_visited = 0 /\ search.results = <<>>)
        /\ search.depth = 1 =>
               \A i \in 1 .. Len(search.results) : search.results[i].via = "result"

----------------------------------------------------------------------------
(* Claims about crawl_url *)

CrawlSucceeded == crawl.phase = "done" /\ crawl.result.status = "ok"

----------------------------------------------------------------------------
(* Claims about analyze_website_ui_ux *)

UxSucceeded == ux.phase = "done" /\ ux.status = "success"

SectionIff(key, flag) == key \in ux.keys <=> ux.flags[flag]

UxOtherSections ==
    /\ SectionIff("screenshot", "take_screenshot")
    /\ SectionIff("layout_analysis", "analyze_layout")
    /\ SectionIff("component_analysis", "analyze_components")
    /\ SectionIff("typography_analysis", "analyze_typography")
    /\ SectionIff("advanced_layout_analysis", "analyze_advanced")
    /\ SectionIff("component_hierarchy", "analyze_advanced")
    /\ SectionIff("responsive_analysis", "analyze_advanced")

----------------------------------------------------------------------------
(* Claims about fetch_images_from_website *)

ImgSucceeded == img.phase = "done" /\ img.status = "success"

\* the entries of saved_images and failed_images made for image k
EntriesFor(k) ==
    Cardinality({j \in 1 .. Len(img.saved_images) : img.saved_images[j].index = k})
    + Cardinality({j \in 1 .. Len(img.failed_images) : img.failed_images[j].index = k})

\* C10: a successful fetch_images_from_website processes at most max_images
\* images and accounts for each exactly once: total_found <= max_images, every
\* processed image has exactly one entry in saved_images or failed_images, and
\* total_found = total_saved + total_failed.
C10_ImagesAccounted ==
    ImgSucceeded =>
        /\ img.total_found <= img.max_images
        /\ \A k \in 1 .. img.total_found : EntriesFor(k) = 1
        /\ Len(img.saved_images) + Len(img.failed_images) = img.total_found
        /\ img.total_found = img.total_saved + img.total_failed

\* the page had more images than max_images; some were saved and some failed
C10_Witness ==
    /\ ImgSucceeded
    /\ Len(img.page_images) > img.max_images
    /\ img.total_found = img.max_images
    /\ img.total_saved > 0
    /\ img.total_failed > 0

\* C11: no image overwrites another: within one invocation no two entries of
\* saved_images have the same saved_path.
C11_SavedPathsDistinct ==
    \A j, k \in 1 .. Len(img.saved_images) :
        j # k => img.saved_images[j].saved_path # img.saved_images[k].saved_path

----------------------------------------------------------------------------
(* Claims about get_page_html *)

PageReturned == page.phase = "done" /\ page.result.status = "returned"

\* C12 (as stated): the html field is never longer than 10000 characters,
\* truncated is set exactly when the page source is longer than 10000
\* characters, and content_length reports the full length.
C12_HtmlWithinMaxLength ==
    PageReturned =>
        /\ TextLen(page.result.html) <= max_length
        /\ "truncated" \in page.result.keys <=> page.length > max_length
        /\ page.result.content_length = page.length

\* C12 (amended): a page source longer than 10000 characters is cut to its
\* first 10000 characters and the marker "... [truncated]" is appended, so the
\* html field is at most 10015 characters long; a shorter page source is
\* returned whole; truncated is set exactly when the page source is longer
\* than 10000 characters, and content_length reports the full length.
C12_HtmlCutAndMarked ==
    PageReturned =>
        /\ TextLen(page.result.html) <= max_length + TruncationMarkerLen
        /\ page.result.html.chars = Min(page.length, max_length)
        /\ page.result.html.marker <=> page.length > max_length
        /\ "truncated" \in page.result.keys <=> page.length > max_length
        /\ page.result.content_length = page.length

\* a page source longer than 10000 characters has been returned, cut and marked
C12_Witness ==
    /\ PageReturned
    /\ page.length > max_length
    /\ "truncated" \in page.result.keys
    /\ TextLen(page.result.html) = max_length + TruncationMarkerLen

----------------------------------------------------------------------------
(* Claims about the session tools and the registry *)

\* a step of one of the session-scoped tools
SessionToolStep ==
    \/ \E sid \in SessionIds, ok \in BOOLEAN : navigate_to_url(sid, ok)
    \/ \E sid \in SessionIds, res \in {"ok", "caught", "broken"} : click_element_and_wait(sid, res)
    \/ \E tool \in ReadingTools, sid \in SessionIds, ok \in BOOLEAN : session_tool(tool, sid, ok)
    \/ \E sid \in SessionIds, res \in {"ok", "caught", "broken"}, ok \in BOOLEAN :
           navigate_and_analyze(sid, res, ok)

\* a step in which start_browser runs, called directly or by a composite tool
StartStep ==
    \/ start_browser(TRUE)
    \/ \E tool \in CompositeTools : composite_start(tool, TRUE)

\* a step in which close_browser runs, called directly or by a composite tool
CloseStep ==
    \/ \E sid \in SessionIds : close_browser(sid)
    \/ composite_close

\* C13: the session-scoped tools never add, remove or rebind a registry entry,
\* whether they succeed or fail; an entry is added or rebound only in a step of
\* start_browser and removed only in a step of close_browser.
C13_SessionToolsReuseOnly ==
    [][/\ SessionToolStep => sessions' = sessions
       /\ (\E s \in DOMAIN sessions' :
              s \notin DOMAIN sessions \/ sessions'[s] # sessions[s]) => StartStep
       /\ (\E s \in DOMAIN sessions : s \notin DOMAIN sessions') => CloseStep]_vars

\* navigate_and_analyze has succeeded on one of two registered sessions
C13_Witness ==
    /\ last.tool = "navigate_and_analyze"
    /\ last.status = "success"
    /\ Cardinality(DOMAIN sessions) = 2

----------------------------------------------------------------------------
(* Claims about the search engine of deep_web_search *)

\* C14: with an unrecognised search_engine the invocation behaves as with
\* 'google': Google's search url is loaded, the result links extracted are
\* those extracted for 'google' from the same page, and the search_engine
\* field of the result is 'google'.
C14_UnrecognisedEngineIsGoogle ==
    (search.phase \in {"loop", "links", "done"} /\ search.engine = "yahoo") =>
        /\ search.search_url = SearchSite("google")
        /\ search.search_engine = "google"
        /\ search.status = "success" =>
               search.search_results =
                   Take(ExtractResults("google", search.found), search.max_pages)

----------------------------------------------------------------------------
(* Claims about navigate_and_analyze *)

NavSucceeded == nav.phase = "done" /\ nav.result.status = "success"

\* C15: after a successful click navigate_and_analyze performs exactly the
\* analyses named by analysis_type: 'basic' yields only page_info and
\* clickable_elements, 'layout' adds layout_analysis, 'components' adds
\* component_analysis, 'full' adds layout_analysis, component_analysis and
\* responsive_analysis; when the click fails it returns status 'error' with
\* navigation_failed true and runs no analysis.
C15_AnalysesByType ==
    /\ NavSucceeded =>
          /\ nav.click = "ok"
          /\ nav.analysis_type = "basic" =>
                 nav.result.analysis = {"page_info", "clickable_elements"}
          /\ nav.analysis_type = "layout" =>
                 nav.result.analysis = {"page_info", "clickable_elements", "layout_analysis"}
          /\ nav.analysis_type = "components" =>
                 nav.result.analysis = {"page_info", "clickable_elements", "component_analysis"}
          /\ nav.analysis_type = "full" =>
                 nav.result.analysis = {"page_info", "clickable_elements", "layout_analysis",
                                        "component_analysis", "responsive_analysis"}
          /\ Len(nav.ran) = Cardinality(nav.result.analysis)
    /\ (nav.phase = "done" /\ nav.click = "caught") =>
          /\ nav.result.status = "error"
          /\ nav.result.navigation_failed
          /\ nav.ran = <<>>

\* a 'layout' analysis has returned after a click that changed the url
C15_Witness ==
    /\ NavSucceeded
    /\ nav.analysis_type = "layout"
    /\ nav.navigation_type = "url_change"
    /\ "layout_analysis" \in nav.result.analysis

----------------------------------------------------------------------------
(* Claims about answer_question_from_web *)

\* the underlying deep_web_search succeeded and returned page results
SearchFound ==
    /\ answer.search_results.started
    /\ answer.search_results.status = "success"
    /\ answer.search_results.results > 0

\* C16: answer_question_from_web returns status 'error' with message 'Failed
\* to find relevant information' exactly when the underlying deep_web_search
\* did not succeed or returned no page results; otherwise it returns status
\* 'success', its answer_sources are the at most 3 highest-scoring candidates
\* in non-increasing score order, and pages_visited and total_search_results
\* are those of the search.
C16_ErrorIffSearchFailed ==
    answer.phase = "done" =>
        IF SearchFound
        THEN /\ answer.result.status = "success"
             /\ Len(answer.result.answer_sources) =
                    Min(TopCandidates, Len(answer.result.candidates))
             /\ NonIncreasing(Scores(answer.result.answer_sources))
             /\ \A i \in 1 .. Len(answer.result.answer_sources) :
                    Cardinality({j \in 1 .. Len(answer.result.candidates) :
                                    answer.result.candidates[j].score
                                        > answer.result.answer_sources[i].score}) < i
             /\ \A i \in 1 .. Len(answer.result.answer_sources) :
                    \E j \in 1 .. Len(answer.result.candidates) :
                        answer.result.candidates[j] = answer.result.answer_sources[i]
             /\ answer.result.pages_visited = answer.search_results.pages_visited
             /\ answer.result.total_search_results =
                    answer.search_results.total_search_results
        ELSE /\ answer.result.status = "error"
             /\ answer.result.message = "Failed to find relevant information"

----------------------------------------------------------------------------
(* Claims about close_browser *)

\* C17: when close_browser(id) returns for a registered id, the driver the
\* registry held for id has been quit, id is no longer registered, every other
\* entry and every other driver is unchanged, and the result is
\* {session_id: id, status: 'closed'}; a close_browser(id) for an id that is
\* not registered, as it is after a first close with no start since, is
\* rejected with 'Browser session not found' and changes nothing.
C17_CloseRemovesItsSession ==
    [][\A sid \in SessionIds :
          close_browser(sid) =>
              IF sid \in DOMAIN sessions
              THEN /\ driverState'[sessions[sid]] = "quit"
                   /\ \A d \in DOMAIN driverState :
                          d # sessions[sid] => driverState'[d] = driverState[d]
                   /\ DOMAIN sessions' = DOMAIN sessions \ {sid}
                   /\ \A s \in DOMAIN sessions' : sessions'[s] = sessions[s]
                   /\ last'.outcome = "returned"
                   /\ last'.status = "closed"
                   /\ last'.session_id = sid
              ELSE /\ last'.outcome = "raised"
                   /\ last'.missing
                   /\ sessions' = sessions
                   /\ driverState' = driverState]_vars

\* a close_browser has been rejected after an earlier close, while another
\* session is registered
C17_Witness ==
    /\ last.tool = "close_browser"
    /\ last.outcome = "raised"
    /\ last.missing
    /\ \E d \in DOMAIN driverState : driverState[d] = "quit"
    /\ DOMAIN sessions # {}

----------------------------------------------------------------------------
(* Claims about the isolation of sessions *)

\* C18: under any interleaving of invocations a registered session stays
\* registered with the same driver until close_browser is called for it, by a
\* caller or by the composite tool that started it, and a composite tool
\* closes only the driver it started itself.
C18_SessionsIsolated ==
    [][/\ \A s \in DOMAIN sessions :
             (s \notin DOMAIN sessions' \/ sessions'[s] # sessions[s]) =>
                 \/ close_browser(s)
                 \/ (stack # <<>> /\ Top.sid = s /\ composite_close)
       /\ composite_close =>
             \A d \in DOMAIN driverState :
                 driverState'[d] # driverState[d] => d = Top.drv]_vars

----------------------------------------------------------------------------
(* Claims about the relevance output of deep_web_search *)

\* C19: each page's relevant_content holds at most 3 paragraphs, every one
\* with relevance_score >= 1, the number of query terms it contains, in
\* non-increasing score order; top_relevant_content holds at most 5 entries in
\* non-increasing score order, each taken from the relevant_content of a page
\* in results; with extract_relevant_content false every relevant_content is
\* empty and top_relevant_content is absent.
C19_RelevanceBoundedOrdered ==
    /\ \A k \in 1 .. Len(rel.results) :
          LET rc == rel.results[k].relevant_content
          IN /\ Len(rc) <= 3
             /\ NonIncreasing(Relevances(rc))
             /\ \A i \in 1 .. Len(rc) :
                    /\ rc[i].relevance_score >= 1
                    /\ rc[i].relevance_score =
                           Cardinality({t \in DOMAIN rel.query_terms :
                                           rel.query_terms[t] \in rc[i].text.terms})
             /\ ~rel.extract_relevant_content => rc = <<>>
    /\ ~rel.extract_relevant_content => ~rel.summary
    /\ rel.summary =>
          /\ Len(rel.top_relevant_content) <= 5
          /\ NonIncreasing(Relevances(rel.top_relevant_content))
          /\ \A i \in 1 .. Len(rel.top_relevant_content) :
                 LET c == rel.top_relevant_content[i]
                 IN \E k \in 1 .. Len(rel.results) :
                        /\ rel.results[k].url = c.source
                        /\ \E j \in 1 .. Len(rel.results[k].relevant_content) :
                               /\ rel.results[k].relevant_content[j].text = c.text
                               /\ rel.results[k].relevant_content[j].relevance_score
                                      = c.relevance_score

\* two pages with three relevant paragraphs each, of different scores, have
\* been summarised into five entries
C19_Witness ==
    /\ rel.phase = "done"
    /\ rel.summary
    /\ Len(rel.results) = 2
    /\ \A k \in 1 .. 2 : Len(rel.results[k].relevant_content) = 3
    /\ Len(rel.top_relevant_content) = 5
    /\ rel.top_relevant_content[1].relevance_score
           > rel.top_relevant_content[5].relevance_score

====
